---- MODULE Spec2Model ----
(***************************************************************************)
(* command-pool (src/src/main.rs): a scheduler launches an initial batch   *)
(* of min(concurrency, total_tasks) task units, then replaces each         *)
(* collected unit by a new one until total_tasks ids have been assigned,   *)
(* and leaves its loop when completed_tasks == total_tasks or the JoinSet  *)
(* is empty.  Each task unit updates shared atomics and two mutex-guarded  *)
(* duration logs.  Every atomic operation, every mutex section and every   *)
(* println! of a task unit is one step of the model; task units run on the *)
(* multi-threaded runtime, so their steps interleave freely with each      *)
(* other and with the scheduler.  The process outlives main's return: it   *)
(* ends when the runtime has shut down, and task units inside a poll run   *)
(* on until then.                                                          *)
(***************************************************************************)
EXTENDS Integers, Sequences, FiniteSets, Bags, TLC

\* Bounds of the model.
MaxN == 3          \* largest total_tasks explored
MaxC == 2          \* largest concurrency explored
MaxDuration == 3   \* longest elapsed time explored, in nanoseconds

\* Default of the -d option (milliseconds).
DefaultDelay == 100

\* Exit status of a process whose main thread panicked.
PanicStatus == 101

VARIABLES
  total_tasks,           \* args.total_tasks
  concurrency,           \* args.concurrency
  delay,                 \* args.delay
  command_empty,         \* args.command.is_empty()
  spc,                   \* position of main
  i,                     \* index of the initial launch loop
  task_id_counter,       \* main's task_id_counter
  join_set,              \* ids of the task units held by the JoinSet
  completed_tasks,       \* AtomicUsize
  successful_tasks,      \* AtomicUsize
  failed_tasks,          \* AtomicUsize
  running_tasks,         \* AtomicUsize
  successful_durations,  \* Mutex<Vec<Duration>>, as the bag of its entries
  failed_durations,      \* Mutex<Vec<Duration>>, as the bag of its entries
  tasks,                 \* per task unit: position and outcome in hand
  launches,              \* ids in the order main assigned them
  sleeps,                \* number of stagger sleeps main has started
  executions,            \* number of subprocess runs that produced a result
  failures,              \* how many of those results were failures
  report,                \* the summary, line by line as far as it is emitted
  exit_code              \* -1 while the process lives, else its exit status

vars == << total_tasks, concurrency, delay, command_empty, spc, i,
           task_id_counter, join_set, completed_tasks, successful_tasks,
           failed_tasks, running_tasks, successful_durations,
           failed_durations, tasks, launches, sleeps, executions, failures,
           report, exit_code >>

config == << total_tasks, concurrency, delay, command_empty >>
counters == << completed_tasks, successful_tasks, failed_tasks >>
logs == << successful_durations, failed_durations >>
results == << executions, failures >>

\* Ids a task unit can carry in the model (room for one launch too many
\* per slot, so an over-launching scheduler stays inside the domain).
TaskIds == 1..(MaxN + MaxC + 1)

Outcomes == {"Success", "ExitFailure", "SpawnError"}

\* Elapsed times a task unit can measure, in nanoseconds (the resolution of
\* Duration).  A run measures any positive number of nanoseconds; the model
\* explores those up to MaxDuration.  The scheduler and the counters never
\* read a duration; only the statistics blocks do.
Durations == 1..MaxDuration

Min(a, b) == IF a < b THEN a ELSE b

NoTask == [pc |-> "unspawned", outcome |-> "None"]

\* A statistics block not yet reached by main; -1 stands for a line that
\* has not been printed.
NoStats == [section |-> "pending", avg |-> -1, min |-> -1, max |-> -1]

NoReport == [total |-> -1, successful |-> -1, failed |-> -1, rate |-> -1,
             successStats |-> NoStats, failedStats |-> NoStats]

\* A duration log.  The code pushes onto a Vec and reads only its length,
\* sum, minimum and maximum, none of which depends on the order of the
\* entries: the model keeps the entries with their multiplicities.
EmptyLog == EmptyBag

\* log.push(d)
Pushed(log, d) == log (+) SetToBag({d})

\* log.len()
LogLen(log) == BagCardinality(log)

\* log.iter().sum()
RECURSIVE SumOver(_, _)
SumOver(values, log) ==
  IF values = {} THEN 0
  ELSE LET d == CHOOSE x \in values : TRUE
       IN  d * CopiesIn(d, log) + SumOver(values \ {d}, log)

SumLog(log) == SumOver(BagToSet(log), log)

\* log.iter().min() and log.iter().max() of a non-empty log
MinLog(log) == CHOOSE d \in BagToSet(log) : \A x \in BagToSet(log) : d <= x

MaxLog(log) == CHOOSE d \in BagToSet(log) : \A x \in BagToSet(log) : d >= x

\* The three Durations main works out for a non-empty log before it prints
\* the block: the average is the sum divided by the length, truncated to the
\* nanosecond.
Stats(log) ==
  [avg |-> SumLog(log) \div LogLen(log),
   min |-> MinLog(log), max |-> MaxLog(log)]

\* The block of an empty log is left out; that of a non-empty log starts
\* with its header line.
StatsHeader(log) ==
  [NoStats EXCEPT !.section = IF log = EmptyLog THEN "omitted" ELSE "printed"]

\* f64: a value is sig * 2^exp, sig a sequence of bits (most significant
\* first, no leading zero, at most F64Bits long; << >> is 0.0).  Every
\* operation rounds its exact result to nearest, ties to even.  Long
\* numbers are handled in limbs of 8 bits (base 256), most significant
\* first.
F64Bits == 53

F64Zero == [sig |-> << >>, exp |-> 0]

\* The integer a short bit sequence stands for.
RECURSIVE BitsValue(_)
BitsValue(b) ==
  IF b = << >> THEN 0
  ELSE 2 * BitsValue(SubSeq(b, 1, Len(b) - 1)) + b[Len(b)]

\* The bits of a limb sequence, 8 per limb.
LimbsToBits(l) ==
  [j \in 1..(8 * Len(l)) |->
     (l[((j - 1) \div 8) + 1] \div 2^(7 - ((j - 1) % 8))) % 2]

\* The limbs of a bit sequence (padded with zeros in front).
BitsToLimbs(b) ==
  LET pad  == (8 - (Len(b) % 8)) % 8
      P(j) == IF j <= pad THEN 0 ELSE b[j - pad]
  IN  [k \in 1..((Len(b) + pad) \div 8) |->
         LET o == 8 * (k - 1)
         IN  128 * P(o + 1) + 64 * P(o + 2) + 32 * P(o + 3) + 16 * P(o + 4)
               + 8 * P(o + 5) + 4 * P(o + 6) + 2 * P(o + 7) + P(o + 8)]

\* A bit sequence without its leading zeros.
StripZeros(b) ==
  IF \A j \in 1..Len(b) : b[j] = 0 THEN << >>
  ELSE LET first == CHOOSE j \in 1..Len(b) :
                      b[j] = 1 /\ \A k \in 1..(j - 1) : b[k] = 0
       IN  SubSeq(b, first, Len(b))

\* bits + 1; one bit longer when every bit was 1.
BitsIncrement(b) ==
  IF \A j \in 1..Len(b) : b[j] = 1
    THEN [j \in 1..(Len(b) + 1) |-> IF j = 1 THEN 1 ELSE 0]
    ELSE LET last == CHOOSE j \in 1..Len(b) :
                       b[j] = 0 /\ \A k \in (j + 1)..Len(b) : b[k] = 1
         IN  [j \in 1..Len(b) |->
                IF j < last THEN b[j] ELSE IF j = last THEN 1 ELSE 0]

\* limbs * m + carry for a factor m < 256.
RECURSIVE LimbsTimes(_, _, _)
LimbsTimes(l, m, carry) ==
  IF l = << >> THEN (IF carry = 0 THEN << >> ELSE << carry >>)
  ELSE LET v == l[Len(l)] * m + carry
       IN  Append(LimbsTimes(SubSeq(l, 1, Len(l) - 1), m, v \div 256),
                  v % 256)

\* bits * m for a factor m < 256.
BitsTimes(b, m) == StripZeros(LimbsToBits(LimbsTimes(BitsToLimbs(b), m, 0)))

\* Round bits * 2^exp (plus a nonzero rest below the last bit when sticky)
\* to F64Bits bits.
F64Round(b, exp, sticky) ==
  IF Len(b) <= F64Bits THEN [sig |-> b, exp |-> exp]
  ELSE LET keep  == SubSeq(b, 1, F64Bits)
           rest  == SubSeq(b, F64Bits + 1, Len(b))
           more  == sticky \/ \E j \in 2..Len(rest) : rest[j] = 1
           up    == rest[1] = 1 /\ (more \/ keep[F64Bits] = 1)
           sig   == IF up THEN BitsIncrement(keep) ELSE keep
           e     == exp + Len(rest)
       IN  IF Len(sig) > F64Bits
             THEN [sig |-> SubSeq(sig, 1, F64Bits), exp |-> e + 1]
             ELSE [sig |-> sig, exp |-> e]

\* Long division in base 256: the first k limbs of r / d after the point
\* (r < d < 2^23), and the remainder left after them.
RECURSIVE DivLimbs(_, _, _)
DivLimbs(r, d, k) ==
  IF k = 0 THEN [limbs |-> << >>, rem |-> r]
  ELSE LET t == DivLimbs((r * 256) % d, d, k - 1)
       IN  [limbs |-> << (r * 256) \div d >> \o t.limbs, rem |-> t.rem]

\* x as f64 / y as f64 for integers 0 <= x <= y, 0 < y < 2^23: 11 limbs
\* after the point hold more than F64Bits significant bits of the quotient.
F64Div(x, y) ==
  IF x = 0 THEN F64Zero
  ELSE LET q == DivLimbs(x % y, y, 11)
       IN  F64Round(StripZeros(LimbsToBits(<< x \div y >> \o q.limbs)),
                    -88, q.rem # 0)

\* v * m for an f64 v and an integer m < 256 (100.0 is the integer 100).
F64Times(v, m) ==
  IF v.sig = << >> THEN F64Zero
  ELSE F64Round(BitsTimes(v.sig, m), v.exp, FALSE)

\* What {:.2} prints for an f64 0 <= v < 2^13, in hundredths: the exact
\* value rounded to two decimals, ties to even.
FormatFixed2(v) ==
  IF v.sig = << >> THEN 0
  ELSE LET p     == BitsTimes(v.sig, 100)
           int   == Len(p) + v.exp      \* bits before the binary point
           whole == IF int <= 0 THEN 0
                    ELSE IF v.exp >= 0 THEN BitsValue(p) * 2^(v.exp)
                    ELSE BitsValue(SubSeq(p, 1, int))
           half  == int >= 0 /\ int < Len(p) /\ p[int + 1] = 1
           more  == \E j \in 1..Len(p) : j > int + 1 /\ p[j] = 1
       IN  IF half /\ (more \/ whole % 2 = 1) THEN whole + 1 ELSE whole

\* success_rate in hundredths of a percent, as {:.2} prints it.
SuccessRate(successful, n) ==
  IF n > 0 THEN FormatFixed2(F64Times(F64Div(successful, n), 100)) ELSE 0

\* SuccessRate over the counter values the bounds allow, worked out once.
SuccessRates ==
  { << s, n, SuccessRate(s, n) >> : s \in 0..(MaxN + MaxC + 1), n \in 0..MaxN }

\* The line "Success Rate: ...%" for the counters main loads.
PrintedRate(successful, n) ==
  (CHOOSE r \in SuccessRates : r[1] = successful /\ r[2] = n)[3]

----------------------------------------------------------------------------
\* Decisions of main.

CommandRejectedNever(empty) == FALSE
\* if args.command.is_empty() { ...; std::process::exit(1); }
CommandRejected(empty) == empty

InitialBatchNoMin(c, n) == c
InitialBatchAtLeastOne(c, n) == Min(IF c = 0 THEN 1 ELSE c, n)
\* for i in 0..args.concurrency.min(args.total_tasks)
InitialBatch(c, n) == Min(c, n)

NextTaskIdSkip(counter) == counter + 2
\* task_id_counter += 1; let task_id = task_id_counter;
NextTaskId(counter) == counter + 1

StaggerAfterEveryLaunch(d, idx, c, n) == d > 0
\* args.delay > 0 && i < args.concurrency.min(args.total_tasks) - 1
StaggerNeeded(d, idx, c, n) == d > 0 /\ idx < Min(c, n) - 1

ReplaceGuardOffByOne(counter, n) == counter <= n
ReplaceGuardOneShort(counter, n) == counter + 1 < n
\* if task_id_counter < args.total_tasks
ReplaceGuard(counter, n) == counter < n

LoopDoneOffByOne(completed, n) == completed + 1 >= n
\* if completed_tasks.load(SeqCst) == args.total_tasks { break; }
LoopDone(completed, n) == completed = n

JoinSetExhaustedNever(js) == FALSE
\* join_set.join_next() yields None
JoinSetExhausted(js) == js = {}

----------------------------------------------------------------------------
\* Decisions of a task unit.

\* Ok(output) with output.status.success()
IsSuccess(outcome) == outcome = "Success"

NextSuccessful(successful, outcome) ==
  IF IsSuccess(outcome) THEN successful + 1 ELSE successful

NextFailedExitOnly(failed, outcome) ==
  IF outcome = "ExitFailure" THEN failed + 1 ELSE failed
\* failed_tasks_clone.fetch_add(1, SeqCst) in the else and the Err branch
NextFailed(failed, outcome) ==
  IF IsSuccess(outcome) THEN failed ELSE failed + 1

PushSuccessAlways(log, outcome, d) == Pushed(log, d)
\* successful_durations_clone.lock().unwrap().push(task_duration)
PushSuccess(log, outcome, d) ==
  IF IsSuccess(outcome) THEN Pushed(log, d) ELSE log

PushFailedExitOnly(log, outcome, d) ==
  IF outcome = "ExitFailure" THEN Pushed(log, d) ELSE log
\* failed_durations_clone.lock().unwrap().push(task_duration)
PushFailed(log, outcome, d) ==
  IF IsSuccess(outcome) THEN log ELSE Pushed(log, d)

AfterResultRetry(outcome) == IF IsSuccess(outcome) THEN "count" ELSE "await"
\* the match on output_result follows the await, whatever the result
AfterResult(outcome) == "count"

AfterFetchSubForgotten(running) == running
\* running_tasks_clone.fetch_sub(1, SeqCst)
AfterFetchSub(running) == running - 1

----------------------------------------------------------------------------
Init ==
  /\ total_tasks \in 0..MaxN
  /\ concurrency \in 0..MaxC
  /\ delay \in {0, DefaultDelay}
  /\ command_empty \in BOOLEAN
  /\ spc = "start"
  /\ i = 0
  /\ task_id_counter = 0
  /\ join_set = {}
  /\ completed_tasks = 0
  /\ successful_tasks = 0
  /\ failed_tasks = 0
  /\ running_tasks = 0
  /\ successful_durations = EmptyLog
  /\ failed_durations = EmptyLog
  /\ tasks = [t \in TaskIds |-> NoTask]
  /\ launches = << >>
  /\ sleeps = 0
  /\ executions = 0
  /\ failures = 0
  /\ report = NoReport
  /\ exit_code = -1

\* join_set.spawn(async move { ... }) with the id just assigned.
Spawned(id) == [tasks EXCEPT ![id].pc = "fetch_add"]

\* Empty command: the eprintln! and exit(1) before anything is set up;
\* otherwise the configuration echo and the creation of the shared state.
MainStart ==
  /\ spc = "start"
  /\ IF CommandRejected(command_empty)
       THEN spc' = "exited" /\ exit_code' = 1
       ELSE spc' = "init" /\ exit_code' = exit_code
  /\ UNCHANGED << config, i, task_id_counter, join_set, counters,
                  running_tasks, logs, tasks, launches, sleeps, results,
                  report >>

\* One iteration of the initial launch loop, up to its sleep.
MainSpawnInitial ==
  /\ spc = "init"
  /\ i < InitialBatch(concurrency, total_tasks)
  /\ task_id_counter' = NextTaskId(task_id_counter)
  /\ tasks' = Spawned(task_id_counter')
  /\ join_set' = join_set \cup {task_id_counter'}
  /\ launches' = Append(launches, task_id_counter')
  /\ IF StaggerNeeded(delay, i, concurrency, total_tasks)
       THEN spc' = "sleep" /\ i' = i /\ sleeps' = sleeps + 1
       ELSE spc' = "init" /\ i' = i + 1 /\ sleeps' = sleeps
  /\ UNCHANGED << config, counters, running_tasks, logs, results, report,
                  exit_code >>

\* time::sleep(...).await returns; the loop goes to its next iteration.
MainWake ==
  /\ spc = "sleep"
  /\ spc' = "init"
  /\ i' = i + 1
  /\ UNCHANGED << config, task_id_counter, join_set, counters, running_tasks,
                  logs, tasks, launches, sleeps, results, report,
                  exit_code >>

\* The initial loop is exhausted.
MainInitDone ==
  /\ spc = "init"
  /\ ~(i < InitialBatch(concurrency, total_tasks))
  /\ spc' = "join"
  /\ UNCHANGED << config, i, task_id_counter, join_set, counters,
                  running_tasks, logs, tasks, launches, sleeps, results,
                  report, exit_code >>

\* join_next() on an empty JoinSet: None, the while-let loop ends.
MainJoinNone ==
  /\ spc = "join"
  /\ JoinSetExhausted(join_set)
  /\ spc' = "report_counts"
  /\ UNCHANGED << config, i, task_id_counter, join_set, counters,
                  running_tasks, logs, tasks, launches, sleeps, results,
                  report, exit_code >>

\* join_next() yields a task unit that panicked: res? returns the JoinError
\* from main; no summary is printed.
MainJoinErr(t) ==
  /\ spc = "join"
  /\ t \in join_set
  /\ tasks[t].pc = "panicked"
  /\ join_set' = join_set \ {t}
  /\ spc' = "returned_err"
  /\ UNCHANGED << config, i, task_id_counter, counters, running_tasks, logs,
                  tasks, launches, sleeps, results, report, exit_code >>

\* join_next() yields a task unit that returned its id; one replacement is
\* spawned while ids remain.
MainJoinOk(t) ==
  /\ spc = "join"
  /\ t \in join_set
  /\ tasks[t].pc = "returned"
  /\ IF ReplaceGuard(task_id_counter, total_tasks)
       THEN /\ task_id_counter' = NextTaskId(task_id_counter)
            /\ tasks' = Spawned(task_id_counter')
            /\ join_set' = (join_set \ {t}) \cup {task_id_counter'}
            /\ launches' = Append(launches, task_id_counter')
       ELSE /\ join_set' = join_set \ {t}
            /\ UNCHANGED << task_id_counter, tasks, launches >>
  /\ spc' = "check"
  /\ UNCHANGED << config, i, counters, running_tasks, logs, sleeps,
                  results, report, exit_code >>

\* The load of completed_tasks that ends the loop or continues it.
MainCheck ==
  /\ spc = "check"
  /\ spc' = IF LoopDone(completed_tasks, total_tasks)
              THEN "report_counts" ELSE "join"
  /\ UNCHANGED << config, i, task_id_counter, join_set, counters,
                  running_tasks, logs, tasks, launches, sleeps, results,
                  report, exit_code >>

\* The separator, "All tasks completed." and "Total: {}" with the load of
\* completed_tasks.
MainReportCounts ==
  /\ spc = "report_counts"
  /\ report' = [report EXCEPT !.total = completed_tasks]
  /\ spc' = "print_successful"
  /\ UNCHANGED << config, i, task_id_counter, join_set, counters,
                  running_tasks, logs, tasks, launches, sleeps, results,
                  exit_code >>

\* "Successful: {}" with the load of successful_tasks.
MainPrintSuccessful ==
  /\ spc = "print_successful"
  /\ report' = [report EXCEPT !.successful = successful_tasks]
  /\ spc' = "print_failed"
  /\ UNCHANGED << config, i, task_id_counter, join_set, counters,
                  running_tasks, logs, tasks, launches, sleeps, results,
                  exit_code >>

\* "Failed: {}" with the load of failed_tasks.
MainPrintFailed ==
  /\ spc = "print_failed"
  /\ report' = [report EXCEPT !.failed = failed_tasks]
  /\ spc' = "print_rate"
  /\ UNCHANGED << config, i, task_id_counter, join_set, counters,
                  running_tasks, logs, tasks, launches, sleeps, results,
                  exit_code >>

\* success_rate from a second load of successful_tasks, and its line.
MainPrintRate ==
  /\ spc = "print_rate"
  /\ report' = [report EXCEPT
       !.rate = PrintedRate(successful_tasks, total_tasks)]
  /\ spc' = "report_success"
  /\ UNCHANGED << config, i, task_id_counter, join_set, counters,
                  running_tasks, logs, tasks, launches, sleeps, results,
                  exit_code >>

\* main locks successful_durations (the guard lives until main ends, so
\* the log cannot change while the block is printed); an empty log skips
\* the block, otherwise its header line is printed.
MainReportSuccess ==
  /\ spc = "report_success"
  /\ report' = [report EXCEPT
       !.successStats = StatsHeader(successful_durations)]
  /\ spc' = IF successful_durations = EmptyLog
              THEN "report_failed" ELSE "success_avg"
  /\ UNCHANGED << config, i, task_id_counter, join_set, counters,
                  running_tasks, logs, tasks, launches, sleeps, results,
                  exit_code >>

\* "  Average Duration: {}" of the successful tasks.
MainPrintSuccessAvg ==
  /\ spc = "success_avg"
  /\ report' = [report EXCEPT
       !.successStats.avg = Stats(successful_durations).avg]
  /\ spc' = "success_min"
  /\ UNCHANGED << config, i, task_id_counter, join_set, counters,
                  running_tasks, logs, tasks, launches, sleeps, results,
                  exit_code >>

\* "  Min Duration: {}" of the successful tasks.
MainPrintSuccessMin ==
  /\ spc = "success_min"
  /\ report' = [report EXCEPT
       !.successStats.min = Stats(successful_durations).min]
  /\ spc' = "success_max"
  /\ UNCHANGED << config, i, task_id_counter, join_set, counters,
                  running_tasks, logs, tasks, launches, sleeps, results,
                  exit_code >>

\* "  Max Duration: {}" of the successful tasks.
MainPrintSuccessMax ==
  /\ spc = "success_max"
  /\ report' = [report EXCEPT
       !.successStats.max = Stats(successful_durations).max]
  /\ spc' = "report_failed"
  /\ UNCHANGED << config, i, task_id_counter, join_set, counters,
                  running_tasks, logs, tasks, launches, sleeps, results,
                  exit_code >>

\* The same for failed_durations: lock, then nothing or the header line.
MainReportFailed ==
  /\ spc = "report_failed"
  /\ report' = [report EXCEPT
       !.failedStats = StatsHeader(failed_durations)]
  /\ spc' = IF failed_durations = EmptyLog
              THEN "report_total" ELSE "failed_avg"
  /\ UNCHANGED << config, i, task_id_counter, join_set, counters,
                  running_tasks, logs, tasks, launches, sleeps, results,
                  exit_code >>

\* "  Average Duration: {}" of the failed tasks.
MainPrintFailedAvg ==
  /\ spc = "failed_avg"
  /\ report' = [report EXCEPT
       !.failedStats.avg = Stats(failed_durations).avg]
  /\ spc' = "failed_min"
  /\ UNCHANGED << config, i, task_id_counter, join_set, counters,
                  running_tasks, logs, tasks, launches, sleeps, results,
                  exit_code >>

\* "  Min Duration: {}" of the failed tasks.
MainPrintFailedMin ==
  /\ spc = "failed_min"
  /\ report' = [report EXCEPT
       !.failedStats.min = Stats(failed_durations).min]
  /\ spc' = "failed_max"
  /\ UNCHANGED << config, i, task_id_counter, join_set, counters,
                  running_tasks, logs, tasks, launches, sleeps, results,
                  exit_code >>

\* "  Max Duration: {}" of the failed tasks.
MainPrintFailedMax ==
  /\ spc = "failed_max"
  /\ report' = [report EXCEPT
       !.failedStats.max = Stats(failed_durations).max]
  /\ spc' = "report_total"
  /\ UNCHANGED << config, i, task_id_counter, join_set, counters,
                  running_tasks, logs, tasks, launches, sleeps, results,
                  exit_code >>

\* The line of the total execution time, then main returns Ok(()).
MainReportTotal ==
  /\ spc = "report_total"
  /\ spc' = "returned_ok"
  /\ UNCHANGED << config, i, task_id_counter, join_set, counters,
                  running_tasks, logs, tasks, launches, sleeps, results,
                  report, exit_code >>

\* main is at a println! or eprintln!: the eprintln! of the empty command
\* or the configuration echo, a line of the counts, the header of a
\* statistics block (printed only for a non-empty log) or one of its
\* lines, the total time.
MainPrints ==
  \/ spc \in {"start", "report_counts", "print_successful", "print_failed",
              "print_rate", "success_avg", "success_min", "success_max",
              "failed_avg", "failed_min", "failed_max", "report_total"}
  \/ spc = "report_success" /\ successful_durations # EmptyLog
  \/ spc = "report_failed" /\ failed_durations # EmptyLog

\* The write of that println!/eprintln! fails: main panics and prints
\* nothing further.
MainPanic ==
  /\ MainPrints
  /\ spc' = "panicked"
  /\ UNCHANGED << config, i, task_id_counter, join_set, counters,
                  running_tasks, logs, tasks, launches, sleeps, results,
                  report, exit_code >>

\* The process has not ended: task units run only while it lives.
ProcessAlive == exit_code = -1

\* The task unit is inside a poll: past its fetch_add and not parked at
\* its await, it runs on a worker thread until it returns or panics.
InPoll(t) ==
  tasks[t].pc \in {"print_start", "count", "push", "completed", "fetch_sub",
                   "print_finish", "print_output"}

\* Exit status of the process by the way main ended.
ExitStatus(pos) ==
  CASE pos = "returned_ok" -> 0
    [] pos = "returned_err" -> 1
    [] pos = "panicked" -> PanicStatus

\* main has returned or panicked: the JoinSet and the runtime are dropped
\* on main's thread.  The drop waits for the worker threads, so for every
\* task unit inside a poll; units not yet polled or parked at their await
\* are dropped where they are.  Then the process ends.
MainExit ==
  /\ ProcessAlive
  /\ spc \in {"returned_ok", "returned_err", "panicked"}
  /\ \A t \in TaskIds : ~InPoll(t)
  /\ exit_code' = ExitStatus(spc)
  /\ UNCHANGED << config, spc, i, task_id_counter, join_set, counters,
                  running_tasks, logs, tasks, launches, sleeps, results,
                  report >>

----------------------------------------------------------------------------
\* The body of a task unit (the initial and the replacement closure are the
\* same code).

\* running_tasks_clone.fetch_add(1, SeqCst)
TaskFetchAdd(t) ==
  /\ ProcessAlive
  /\ tasks[t].pc = "fetch_add"
  /\ running_tasks' = running_tasks + 1
  /\ tasks' = [tasks EXCEPT ![t].pc = "print_start"]
  /\ UNCHANGED << config, spc, i, task_id_counter, join_set, counters, logs,
                  launches, sleeps, results, report, exit_code >>

\* println!("[Task {}] Starting... (Running: {})", id, running.load()):
\* the line carries the value running_tasks has when this step is taken.
TaskPrintStart(t) ==
  /\ ProcessAlive
  /\ tasks[t].pc = "print_start"
  /\ tasks' = [tasks EXCEPT ![t].pc = "await"]
  /\ UNCHANGED << config, spc, i, task_id_counter, join_set, counters,
                  running_tasks, logs, launches, sleeps, results, report,
                  exit_code >>

\* cmd.output().await resolves with the subprocess result.
TaskAwait(t) ==
  /\ ProcessAlive
  /\ tasks[t].pc = "await"
  /\ \E o \in Outcomes :
       /\ tasks' = [tasks EXCEPT ![t].pc = AfterResult(o),
                                 ![t].outcome = o]
       /\ failures' = IF o = "Success" THEN failures ELSE failures + 1
  /\ executions' = executions + 1
  /\ UNCHANGED << config, spc, i, task_id_counter, join_set, counters,
                  running_tasks, logs, launches, sleeps, report, exit_code >>

\* fetch_add on successful_tasks or failed_tasks, by the outcome.
TaskCount(t) ==
  /\ ProcessAlive
  /\ tasks[t].pc = "count"
  /\ successful_tasks' = NextSuccessful(successful_tasks, tasks[t].outcome)
  /\ failed_tasks' = NextFailed(failed_tasks, tasks[t].outcome)
  /\ tasks' = [tasks EXCEPT ![t].pc = "push"]
  /\ UNCHANGED << config, spc, i, task_id_counter, join_set, completed_tasks,
                  running_tasks, logs, launches, sleeps, results, report,
                  exit_code >>

\* lock().unwrap().push(task_duration) on the log of the outcome's class.
\* task_duration, the time elapsed when the await resolved, is a local that
\* nothing reads before this push: its value is drawn here.
TaskPush(t) ==
  /\ ProcessAlive
  /\ tasks[t].pc = "push"
  /\ \E d \in Durations :
       /\ successful_durations' =
            PushSuccess(successful_durations, tasks[t].outcome, d)
       /\ failed_durations' =
            PushFailed(failed_durations, tasks[t].outcome, d)
  /\ tasks' = [tasks EXCEPT ![t].pc = "completed", ![t].outcome = "None"]
  /\ UNCHANGED << config, spc, i, task_id_counter, join_set, counters,
                  running_tasks, launches, sleeps, results, report,
                  exit_code >>

\* completed_tasks_clone.fetch_add(1, SeqCst)
TaskCompleted(t) ==
  /\ ProcessAlive
  /\ tasks[t].pc = "completed"
  /\ completed_tasks' = completed_tasks + 1
  /\ tasks' = [tasks EXCEPT ![t].pc = "fetch_sub"]
  /\ UNCHANGED << config, spc, i, task_id_counter, join_set,
                  successful_tasks, failed_tasks, running_tasks, logs,
                  launches, sleeps, results, report, exit_code >>

\* running_tasks_clone.fetch_sub(1, SeqCst)
TaskFetchSub(t) ==
  /\ ProcessAlive
  /\ tasks[t].pc = "fetch_sub"
  /\ running_tasks' = AfterFetchSub(running_tasks)
  /\ tasks' = [tasks EXCEPT ![t].pc = "print_finish"]
  /\ UNCHANGED << config, spc, i, task_id_counter, join_set, counters, logs,
                  launches, sleeps, results, report, exit_code >>

\* println!("[Task {}] Finished: {} (Running: {})", id, msg, running.load()):
\* the line carries the value running_tasks has when this step is taken.
TaskPrintFinish(t) ==
  /\ ProcessAlive
  /\ tasks[t].pc = "print_finish"
  /\ tasks' = [tasks EXCEPT ![t].pc = "print_output"]
  /\ UNCHANGED << config, spc, i, task_id_counter, join_set, counters,
                  running_tasks, logs, launches, sleeps, results, report,
                  exit_code >>

\* The stdout and stderr blocks, then the closure returns task_id.
TaskReturn(t) ==
  /\ ProcessAlive
  /\ tasks[t].pc = "print_output"
  /\ tasks' = [tasks EXCEPT ![t].pc = "returned"]
  /\ UNCHANGED << config, spc, i, task_id_counter, join_set, counters,
                  running_tasks, logs, launches, sleeps, results, report,
                  exit_code >>

\* println!/eprintln! panic when the write to the stream fails: the task
\* unit ends there and its JoinHandle resolves to a JoinError.
TaskPanic(t) ==
  /\ ProcessAlive
  /\ tasks[t].pc \in {"print_start", "print_finish", "print_output"}
  /\ tasks' = [tasks EXCEPT ![t].pc = "panicked", ![t].outcome = "None"]
  /\ UNCHANGED << config, spc, i, task_id_counter, join_set, counters,
                  running_tasks, logs, launches, sleeps, results, report,
                  exit_code >>

TaskStep(t) ==
  \/ TaskFetchAdd(t)
  \/ TaskPrintStart(t)
  \/ TaskAwait(t)
  \/ TaskCount(t)
  \/ TaskPush(t)
  \/ TaskCompleted(t)
  \/ TaskFetchSub(t)
  \/ TaskPrintFinish(t)
  \/ TaskReturn(t)

MainStep ==
  \/ MainStart
  \/ MainSpawnInitial
  \/ MainWake
  \/ MainInitDone
  \/ MainJoinNone
  \/ \E t \in TaskIds : MainJoinOk(t)
  \/ MainCheck
  \/ MainReportCounts
  \/ MainPrintSuccessful
  \/ MainPrintFailed
  \/ MainPrintRate
  \/ MainReportSuccess
  \/ MainPrintSuccessAvg
  \/ MainPrintSuccessMin
  \/ MainPrintSuccessMax
  \/ MainReportFailed
  \/ MainPrintFailedAvg
  \/ MainPrintFailedMin
  \/ MainPrintFailedMax
  \/ MainReportTotal
  \/ MainExit

\* A println! of a task unit or of main fails, or main collects a task unit
\* that ended so.
FaultStep ==
  \/ \E t \in TaskIds : TaskPanic(t)
  \/ \E t \in TaskIds : MainJoinErr(t)
  \/ MainPanic

Next ==
  \/ MainStep
  \/ \E t \in TaskIds : TaskStep(t)
  \/ FaultStep

Spec == Init /\ [][Next]_vars

\* Runs in which no println! fails, main and the task units are scheduled
\* fairly and every subprocess returns a result (TaskAwait is a task step).
NextNoFault ==
  \/ MainStep
  \/ \E t \in TaskIds : TaskStep(t)

FairSpec ==
  /\ Init /\ [][NextNoFault]_vars
  /\ WF_vars(MainStep)
  /\ WF_vars(\E t \in TaskIds : TaskStep(t))

----------------------------------------------------------------------------
\* Vocabulary of the properties.

\* main is printing the summary.
Reporting ==
  spc \in {"report_counts", "print_successful", "print_failed", "print_rate",
           "report_success", "success_avg", "success_min", "success_max",
           "report_failed", "failed_avg", "failed_min", "failed_max",
           "report_total"}

\* main has left the while-let loop without returning a JoinError.
LoopExited == Reporting \/ spc = "returned_ok"

\* Every line of a statistics block that was begun is printed.
StatsComplete(s) ==
  /\ s.section # "pending"
  /\ s.section = "printed" => (s.avg # -1 /\ s.min # -1 /\ s.max # -1)

\* The summary block is complete, main returned Ok(()) and the process has
\* ended with status 0.
ReportEmitted ==
  /\ spc = "returned_ok"
  /\ exit_code = 0
  /\ report.total # -1 /\ report.successful # -1
  /\ report.failed # -1 /\ report.rate # -1
  /\ StatsComplete(report.successStats)
  /\ StatsComplete(report.failedStats)

\* Task units whose body has not ended.
Unfinished == {t \in TaskIds : tasks[t].pc \notin {"unspawned", "returned", "panicked"}}

\* Task units that hold a failure (a success) not yet folded into a counter
\* (pcs "count") or into a log (pcs "count" and "push").
Holding(pcs, failed) ==
  {t \in TaskIds : /\ tasks[t].pc \in pcs
                   /\ tasks[t].outcome # "None"
                   /\ (tasks[t].outcome # "Success") = failed}

\* Task units between their outcome fetch_add and their completed fetch_add.
Recording == {t \in TaskIds : tasks[t].pc \in {"push", "completed"}}

Faulted == \E t \in TaskIds : tasks[t].pc = "panicked"

----------------------------------------------------------------------------
\* C1: with concurrency >= 1, running_tasks never exceeds
\* min(concurrency, total_tasks), in any interleaving.
C1_ConcurrencyCeiling ==
  concurrency >= 1 => running_tasks <= Min(concurrency, total_tasks)

\* A replacement unit runs while the counter is at the ceiling.
C1_Witness ==
  /\ concurrency = 2 /\ total_tasks = 3
  /\ tasks[3].pc = "await"
  /\ running_tasks = 2

\* C2: task_id_counter never exceeds total_tasks, and once the loop has
\* been left normally (concurrency >= 1) it equals total_tasks.
C2_LaunchCount ==
  /\ task_id_counter <= total_tasks
  /\ (concurrency >= 1 /\ LoopExited) => task_id_counter = total_tasks

C2_Witness ==
  /\ concurrency = 2 /\ total_tasks = 3
  /\ ReportEmitted
  /\ task_id_counter = 3

\* C3: with concurrency >= 1 the loop is never left, and no part of the
\* summary is produced, while completed_tasks < total_tasks.
C3_NoEarlyExit ==
  (concurrency >= 1 /\ (LoopExited \/ report # NoReport))
    => completed_tasks = total_tasks

\* The loop is left through the break while a counted unit still runs.
C3_Witness ==
  /\ concurrency = 2 /\ total_tasks = 3
  /\ spc = "report_counts"
  /\ Unfinished # {}
  /\ completed_tasks = 3

\* C4: the counts of the summary (once its three count lines are printed),
\* and the counters while the summary is produced, satisfy successful +
\* failed = completed = total_tasks (concurrency >= 1), whatever the
\* outcomes and the completion order.
C4_FinalAccounting ==
  /\ (concurrency >= 1 /\ LoopExited) =>
       /\ completed_tasks = total_tasks
       /\ successful_tasks + failed_tasks = completed_tasks
  /\ (concurrency >= 1 /\ report.total # -1) => report.total = total_tasks
  /\ (concurrency >= 1 /\ report.failed # -1) =>
       report.successful + report.failed = report.total

C4_Witness ==
  /\ concurrency = 2 /\ total_tasks = 3
  /\ ReportEmitted
  /\ report.successful = 1 /\ report.failed = 2

\* C5: the ids assigned are 1, 2, 3, ... in launch order, none twice, the
\* spawned units are exactly those ids, and after a normal end of the loop
\* (concurrency >= 1) they are exactly 1..total_tasks.
C5_TaskIds ==
  /\ launches = [k \in 1..Len(launches) |-> k]
  /\ Len(launches) = task_id_counter
  /\ \A t \in TaskIds : (tasks[t].pc # "unspawned") <=> (t <= task_id_counter)
  /\ (concurrency >= 1 /\ LoopExited) =>
       {launches[k] : k \in 1..Len(launches)} = 1..total_tasks

\* Ids of the initial batch and of a replacement.
C5_Witness ==
  /\ concurrency = 2 /\ total_tasks = 3
  /\ launches = << 1, 2, 3 >>
  /\ ReportEmitted

\* C6: from the moment the loop is left normally, each duration log has as
\* many entries as its counter says and the two lengths add up to
\* completed_tasks, also while task units still run their last steps.
C6_SnapshotConsistent ==
  LoopExited =>
    /\ LogLen(successful_durations) = successful_tasks
    /\ LogLen(failed_durations) = failed_tasks
    /\ LogLen(successful_durations) + LogLen(failed_durations) = completed_tasks

\* The success block is being read while a unit has not decremented yet.
C6_Witness ==
  /\ spc = "report_success"
  /\ \E t \in TaskIds : tasks[t].pc = "fetch_sub"
  /\ successful_durations # EmptyLog /\ failed_durations # EmptyLog

\* C7 as stated: successful + failed = completed and completed <=
\* total_tasks in every reachable state.
C7_Original ==
  /\ successful_tasks + failed_tasks = completed_tasks
  /\ completed_tasks <= total_tasks

\* C7, amended: completed <= total_tasks, and successful + failed exceeds
\* completed by exactly the number of task units that have incremented
\* their outcome counter and not yet completed_tasks.
C7_Amended ==
  /\ completed_tasks <= total_tasks
  /\ successful_tasks + failed_tasks = completed_tasks + Cardinality(Recording)

\* Two units are between the two increments at once.
C7_Witness ==
  /\ Cardinality(Recording) = 2
  /\ successful_tasks + failed_tasks = completed_tasks + 2

\* C8: with a command, concurrency >= 1, fair scheduling and every
\* subprocess returning, main eventually leaves the loop, emits the whole
\* summary and returns, and the process ends with status 0.
C8_Termination ==
  (~command_empty /\ concurrency >= 1) => <>ReportEmitted

C8_Witness ==
  /\ concurrency = 2 /\ total_tasks = 3
  /\ ReportEmitted
  /\ report.total = 3

\* C9: every failure result (nonzero exit or spawn error) is counted once
\* in failed_tasks and logged once in failed_durations, never in the
\* success counter or log; a subprocess is run at most once per assigned id;
\* and failures do not keep the scheduler from assigning all ids.
C9_FailuresFolded ==
  /\ failed_tasks = failures - Cardinality(Holding({"count"}, TRUE))
  /\ LogLen(failed_durations)
       = failures - Cardinality(Holding({"count", "push"}, TRUE))
  /\ successful_tasks
       = (executions - failures) - Cardinality(Holding({"count"}, FALSE))
  /\ LogLen(successful_durations)
       = (executions - failures) - Cardinality(Holding({"count", "push"}, FALSE))
  /\ executions <= task_id_counter
  /\ (concurrency >= 1 /\ LoopExited) => task_id_counter = total_tasks

\* Two failures and one success, all three ids assigned, summary emitted.
C9_Witness ==
  /\ total_tasks = 3
  /\ ReportEmitted
  /\ failures = 2 /\ failed_tasks = 2 /\ LogLen(failed_durations) = 2
  /\ successful_tasks = 1 /\ executions = 3

\* C10 as stated: once a task unit has ended with a fault, main does not
\* go on to the summary and does not exit with status 0.
C10_FaultIsFatal ==
  Faulted => ~LoopExited

\* The summary, as far as it is emitted, reports nothing: zero counts, zero
\* rate, no statistics block.
EmptySummary ==
  /\ report.total \in {-1, 0}
  /\ report.successful \in {-1, 0}
  /\ report.failed \in {-1, 0}
  /\ report.rate \in {-1, 0}
  /\ report.successStats.section \in {"pending", "omitted"}
  /\ report.failedStats.section \in {"pending", "omitted"}

\* No task unit was ever spawned and main never waits: it is not in the
\* stagger sleep, and at join_next() the JoinSet is empty, which yields None
\* at once.
NothingLaunched ==
  /\ task_id_counter = 0
  /\ launches = << >>
  /\ join_set = {}
  /\ \A t \in TaskIds : tasks[t].pc = "unspawned"
  /\ spc \notin {"sleep", "check"}
  /\ completed_tasks = 0 /\ successful_tasks = 0 /\ failed_tasks = 0
  /\ running_tasks = 0

\* main was not stopped by a failing write of its own println!s.
MainUninterrupted == spc # "panicked"

\* C11: with a command and total_tasks = 0 (any concurrency) nothing is
\* launched, the loop ends without waiting, the summary has zero counts,
\* rate 0 and no statistics block, and, in a run where every write of main
\* to stdout succeeds, main ends with the whole summary and exit status 0.
C11_ZeroTasks ==
  (~command_empty /\ total_tasks = 0) =>
    /\ NothingLaunched
    /\ EmptySummary
    /\ MainUninterrupted =>
         /\ exit_code \in {-1, 0}
         /\ exit_code = 0 => ReportEmitted

C11_Witness ==
  /\ total_tasks = 0 /\ concurrency = 2
  /\ ReportEmitted
  /\ report.total = 0 /\ report.rate = 0
  /\ report.successStats.section = "omitted"
  /\ report.failedStats.section = "omitted"

\* C12: with an empty command main goes from its start straight to the end
\* of the process with a non-zero status (1 from exit(1), or 101 when the
\* eprintln! itself fails and main panics): no task unit is spawned, the
\* shared counters and logs (created after the check) are never touched,
\* and no part of the summary appears.
C12_EmptyCommand ==
  command_empty =>
    /\ spc \in {"start", "exited", "panicked"}
    /\ spc = "exited" => exit_code = 1
    /\ spc = "panicked" => exit_code \in {-1, PanicStatus}
    /\ exit_code \in {-1, 1, PanicStatus}
    /\ NothingLaunched
    /\ successful_durations = EmptyLog /\ failed_durations = EmptyLog
    /\ executions = 0
    /\ report = NoReport

C12_Witness ==
  /\ command_empty
  /\ total_tasks = 3 /\ concurrency = 2
  /\ spc = "exited" /\ exit_code = 1

\* Task units main has collected with their id (join_next() gave Ok).
Collected == {t \in TaskIds : tasks[t].pc = "returned" /\ t \notin join_set}

\* main is past the initial launch loop (a main that panicked did so in
\* the configuration echo or in the summary, and is left out).
PastInitialBatch ==
  /\ ~command_empty
  /\ spc \notin {"start", "init", "sleep", "panicked"}

\* This step of main collects one completion (Ok) from the JoinSet.
CollectsOne ==
  /\ spc = "join" /\ spc' = "check"
  /\ \E t \in join_set : join_set \ join_set' = {t}

\* This step is a launch of the initial loop.
InitialLaunch == spc = "init" /\ i < Min(concurrency, total_tasks)

\* C13: the initial loop launches exactly min(c, n) units; each collected
\* completion launches exactly one unit with the next id if the highest id
\* is below n and none otherwise; no unit is launched in any other step.
C13_ReplaceOnCompletion ==
  /\ [](PastInitialBatch =>
         task_id_counter
           = Min(total_tasks,
                 Min(concurrency, total_tasks) + Cardinality(Collected)))
  /\ [][ /\ (spc \in {"init", "sleep"} /\ spc' = "join")
              => task_id_counter = Min(concurrency, total_tasks)
         /\ CollectsOne =>
              IF task_id_counter < total_tasks
                THEN /\ task_id_counter' = task_id_counter + 1
                     /\ launches' = Append(launches, task_id_counter + 1)
                     /\ join_set' \ join_set = {task_id_counter + 1}
                ELSE /\ task_id_counter' = task_id_counter
                     /\ launches' = launches
                     /\ join_set' \subseteq join_set
         /\ (launches' # launches \/ task_id_counter' # task_id_counter)
              => /\ InitialLaunch \/ CollectsOne
                 /\ Len(launches') = Len(launches) + 1
                 /\ task_id_counter' = task_id_counter + 1
       ]_vars

\* The third unit was launched as the replacement of one collected unit.
C13_Witness ==
  /\ concurrency = 2 /\ total_tasks = 3
  /\ spc = "check"
  /\ Cardinality(Collected) = 1
  /\ task_id_counter = 3
  /\ tasks[3].pc = "fetch_add"

\* C14: with c >= 1, whenever main waits in join_next() and fewer than n
\* units have been launched, the units launched and not yet collected are
\* exactly min(c, n).
C14_PoolKeptFull ==
  (concurrency >= 1 /\ spc = "join" /\ task_id_counter < total_tasks)
    => Cardinality(join_set) = Min(concurrency, total_tasks)

\* main waits after a replacement while one more id remains.
C14_Witness ==
  /\ concurrency = 1 /\ total_tasks = 3
  /\ spc = "join"
  /\ task_id_counter = 2
  /\ join_set = {2}
  /\ Collected = {1}

\* Number of stagger sleeps of a whole run.
ExpectedSleeps ==
  IF delay > 0 /\ Min(concurrency, total_tasks) >= 1
    THEN Min(concurrency, total_tasks) - 1
    ELSE 0

\* C15: main sleeps max(min(c, n) - 1, 0) times when delay > 0 and never
\* when delay = 0; a sleep starts only in the step of an initial launch that
\* is not the last one, main sleeps only between two initial launches, and
\* once the initial loop is over (where all replacements are) the number of
\* sleeps no longer changes.
C15_StaggerDelay ==
  /\ [](/\ sleeps <= ExpectedSleeps
        /\ PastInitialBatch => sleeps = ExpectedSleeps
        /\ spc = "sleep" =>
             /\ delay > 0
             /\ task_id_counter >= 1
             /\ task_id_counter < Min(concurrency, total_tasks)
             /\ sleeps = task_id_counter
        /\ delay = 0 => sleeps = 0)
  /\ [][ /\ sleeps' # sleeps =>
              /\ sleeps' = sleeps + 1
              /\ InitialLaunch
              /\ spc' = "sleep"
              /\ task_id_counter' < Min(concurrency, total_tasks)
         /\ (InitialLaunch /\ task_id_counter' # task_id_counter
               /\ delay > 0
               /\ task_id_counter' < Min(concurrency, total_tasks))
              => sleeps' = sleeps + 1
         /\ CollectsOne => (sleeps' = sleeps /\ spc' # "sleep")
       ]_vars

\* A whole run with one sleep between the two initial launches and one
\* replacement after them.
C15_Witness ==
  /\ delay > 0
  /\ concurrency = 2 /\ total_tasks = 3
  /\ sleeps = 1
  /\ ReportEmitted

\* C16: with a command, concurrency = 0 and total_tasks > 0 nothing is
\* launched, the loop ends at once and, in a run where every write of main
\* to stdout succeeds, main returns Ok (exit status 0) with a summary of
\* zero counts.
C16_ZeroConcurrency ==
  (~command_empty /\ concurrency = 0 /\ total_tasks > 0) =>
    /\ NothingLaunched
    /\ EmptySummary
    /\ MainUninterrupted =>
         /\ exit_code \in {-1, 0}
         /\ exit_code = 0 => ReportEmitted

C16_Witness ==
  /\ concurrency = 0 /\ total_tasks = 3
  /\ ReportEmitted
  /\ report.total = 0 /\ report.successful = 0 /\ report.failed = 0

\* C17: in the summary the statistics block of a class is printed if and
\* only if the counter of the class is positive (as loaded for the summary
\* and as it stands), and a printed block is over at least one sample.
C17_StatsPresence ==
  /\ report.successStats.section # "pending" =>
       /\ (report.successStats.section = "printed") <=> (report.successful > 0)
       /\ (report.successStats.section = "printed") <=> (successful_tasks > 0)
       /\ report.successStats.section = "printed"
            => LogLen(successful_durations) > 0
  /\ report.failedStats.section # "pending" =>
       /\ (report.failedStats.section = "printed") <=> (report.failed > 0)
       /\ (report.failedStats.section = "printed") <=> (failed_tasks > 0)
       /\ report.failedStats.section = "printed"
            => LogLen(failed_durations) > 0

\* One class printed, over three samples of unequal durations, the other
\* omitted.
C17_Witness ==
  /\ total_tasks = 3
  /\ ReportEmitted
  /\ report.successStats.section = "omitted"
  /\ report.failedStats.section = "printed"
  /\ report.failed = 3
  /\ report.failedStats.min < report.failedStats.avg
  /\ report.failedStats.avg < report.failedStats.max

\* The unit has printed its start line (its finish line).
StartEmitted(t) ==
  tasks[t].pc \in {"await", "count", "push", "completed", "fetch_sub",
                   "print_finish", "print_output", "returned"}
FinishEmitted(t) == tasks[t].pc \in {"print_output", "returned"}

\* The unit has done its completed_tasks fetch_add.
Counted(t) ==
  tasks[t].pc \in {"fetch_sub", "print_finish", "print_output", "returned"}

\* Some part of the summary block has been printed.
SummaryStarted == report.total # -1

\* C18 as stated: with c >= 1 and no fault, once the summary is being
\* printed running_tasks is 0 and every id 1..n has printed its start and
\* its finish line.
C18_Original ==
  (concurrency >= 1 /\ ~Faulted /\ SummaryStarted) =>
    /\ running_tasks = 0
    /\ \A t \in 1..total_tasks : StartEmitted(t) /\ FinishEmitted(t)

\* C18, amended: with c >= 1 and no fault, once the summary is being
\* printed every id 1..n has printed its start line and incremented
\* completed_tasks; the units that have not printed their finish line are
\* uncollected units of the JoinSet (at most min(c, n)), and running_tasks
\* is the number of them that have not yet done their fetch_sub.
C18_Amended ==
  (concurrency >= 1 /\ ~Faulted /\ SummaryStarted) =>
    /\ \A t \in 1..total_tasks : StartEmitted(t) /\ Counted(t)
    /\ {t \in 1..total_tasks : ~FinishEmitted(t)} \subseteq join_set
    /\ Cardinality(join_set) <= Min(concurrency, total_tasks)
    /\ running_tasks
         = Cardinality({t \in 1..total_tasks : tasks[t].pc = "fetch_sub"})

\* The summary counts are printed while a unit still counts as running.
C18_Witness ==
  /\ concurrency = 2 /\ total_tasks = 3
  /\ ~Faulted
  /\ SummaryStarted
  /\ running_tasks = 1
  /\ \E t \in 1..total_tasks : tasks[t].pc = "fetch_sub"

\* C19: the start line of a unit carries a running count in 1..min(c, n),
\* its finish line one in 0..min(c, n) - 1 (the lines carry the value of
\* running_tasks in the step that prints them).
C19_ReportedRunning ==
  [][ \A t \in TaskIds :
        /\ (tasks[t].pc = "print_start" /\ tasks'[t].pc = "await")
             => /\ running_tasks >= 1
                /\ running_tasks <= Min(concurrency, total_tasks)
        /\ (tasks[t].pc = "print_finish" /\ tasks'[t].pc = "print_output")
             => /\ running_tasks >= 0
                /\ running_tasks <= Min(concurrency, total_tasks) - 1
    ]_vars

\* A finish line is about to carry min(c, n) - 1 = 1 while the replacement
\* unit is about to print its start line.
C19_Witness ==
  /\ concurrency = 2 /\ total_tasks = 3
  /\ running_tasks = 1
  /\ \E t \in TaskIds : tasks[t].pc = "print_finish"
  /\ tasks[3].pc = "print_start"

\* C20: in every state completed <= successful + failed <= launched, each
\* log is no longer than its counter, completed is no larger than the two
\* logs together (a unit is counted after its outcome is counted and its
\* duration pushed), and when completed = total_tasks both counters and
\* both logs account for all total_tasks outcomes.
C20_UpdateOrder ==
  /\ completed_tasks <= successful_tasks + failed_tasks
  /\ successful_tasks + failed_tasks <= task_id_counter
  /\ LogLen(successful_durations) <= successful_tasks
  /\ LogLen(failed_durations) <= failed_tasks
  /\ completed_tasks <= LogLen(successful_durations) + LogLen(failed_durations)
  /\ completed_tasks = total_tasks =>
       /\ successful_tasks + failed_tasks = total_tasks
       /\ LogLen(successful_durations) = successful_tasks
       /\ LogLen(failed_durations) = failed_tasks

\* A third failure is counted in failed_tasks, not yet pushed and not yet
\* counted in completed_tasks.
C20_Witness ==
  /\ total_tasks = 3
  /\ completed_tasks = 2
  /\ failed_tasks = 3
  /\ LogLen(failed_durations) = 2
  /\ \E t \in TaskIds : tasks[t].pc = "push"

====
